---- MODULE Spec2Model ----
(***************************************************************************)
(* Model of the wave-function-collapse map generator of dungeon-game-test  *)
(* (src/src/generation.rs): ImageFragment and its operations, and          *)
(* Canvas::get_wave_function / Canvas::write as a sequence of phases; and  *)
(* of its use by the game (src/src/generator.rs, src/src/main.rs): the     *)
(* task new_quadrant spawns, its channel, and the frame loop that polls    *)
(* the channel through gen_maze_async.                                     *)
(* write() passes get_wave_function fixed arguments (generation.rs:340-352, *)
(* a 3 x 3 fragment of rooms.bmp); here the arguments and the canvas size   *)
(* are part of the initial state and range over small sets.                *)
(*                                                                         *)
(* A pixel ([u8; 4]) is abstracted to the colour class it belongs to.      *)
(* A fragment is the record [pixels, width, height] of struct              *)
(* ImageFragment, pixels indexed pixels[width_index][height_index] from 0. *)
(***************************************************************************)
EXTENDS Integers, Sequences, FiniteSets, TLC

\* ------------------------------------------------------------------ bounds
\* largest area (width * height) of a fragment the operation study starts from
MaxOpPixels == 6
\* longest sequence of rotate()/flip() calls the operation study applies
MaxOps == 4
\* largest area (width * height) of a sample image of the sample and solve studies
MaxImagePixels == 4
\* largest side of the single-colour square sample images of the topology study
MaxMonoDim == 4
\* largest fragment side of the topology study
MaxFragDim == 2
\* largest node-grid side of the topology study
MaxGridDim == 3
\* largest number of nodes of the solve study
MaxSolveNodes == 4
\* largest area (width * height) of a sample image of the run study
MaxRunImagePixels == 4
\* largest area (width * height) of a canvas of the run study
MaxRunCanvasPixels == 4

\* ------------------------------------------------------------------ pixels
\* [0, 0, 0, 0]: the fill of a freshly allocated fragment (generation.rs:28,77,100)
ZeroPixel == "zero"
\* [0, 0, 128, 0]: the fill of the output buffer (generation.rs:384)
BackgroundPixel == "background"
\* [0, 0, 0, 255]: the colour the world builder turns into a wall (generator.rs:33)
WallPixel == "wall"
\* any other colour of the sample image
FloorPixel == "floor"
\* the colours a sample image is drawn from
SampleColors == {WallPixel, FloorPixel}

\* the width of the signed 8-bit integers of the node loops (`as i8`)
I8Bits == 8

\* mpsc::channel::<MeshResult>(1): the capacity of the channel (generator.rs:21)
ChannelCapacity == 1

Max(a, b) == IF a >= b THEN a ELSE b
Min(a, b) == IF a <= b THEN a ELSE b

\* ---------------------------------------------------------------- fragments
\* every width x height grid of pixels over the given colours
PixelGrids(w, h, colors) == [0..(w - 1) -> [0..(h - 1) -> colors]]

\* struct ImageFragment { pixels, width, height }
Fragment(p, w, h) == [pixels |-> p, width |-> w, height |-> h]

\* every fragment of exactly w x h pixels
FragmentsOfSize(w, h) == {Fragment(p, w, h) : p \in PixelGrids(w, h, SampleColors)}

\* every fragment of at most maxPixels pixels, square or not
FragmentsUpTo(maxPixels) ==
    UNION {FragmentsOfSize(d[1], d[2]) :
             d \in {e \in (1..maxPixels) \X (1..maxPixels) : e[1] * e[2] <= maxPixels}}

\* The pixel grid a pair of nested loops leaves behind: a w x h grid of
\* ZeroPixel, then one write <<destination width index, destination height
\* index, colour>> per loop iteration.  No two iterations of rotate() or
\* flip() write the same destination, so the order of the writes is immaterial.
Written(w, h, writes) ==
    [dw \in 0..(w - 1) |-> [dh \in 0..(h - 1) |->
        IF \E t \in writes : t[1] = dw /\ t[2] = dh
        THEN (CHOOSE t \in writes : t[1] = dw /\ t[2] = dh)[3]
        ELSE ZeroPixel]]

\* rotate() with the height loop stopping one row early
rotate_short_loop(self) ==
    Fragment(
        Written(self.height, self.width,
            {<<(self.height - 1) - height_index, width_index,
               self.pixels[width_index][height_index]>> :
                 height_index \in 0..(self.height - 2),
                 width_index \in 0..(self.width - 1)}),
        self.height, self.width)

\* ImageFragment::rotate
rotate(self) ==
    Fragment(
        Written(self.height, self.width,
            {<<(self.height - 1) - height_index, width_index,
               self.pixels[width_index][height_index]>> :
                 height_index \in 0..(self.height - 1),
                 width_index \in 0..(self.width - 1)}),
        self.height, self.width)

\* flip() with the width loop stopping one column early
flip_short_loop(self) ==
    Fragment(
        Written(self.width, self.height,
            {<<(self.width - 1) - width_index, height_index,
               self.pixels[width_index][height_index]>> :
                 height_index \in 0..(self.height - 1),
                 width_index \in 0..(self.width - 2)}),
        self.width, self.height)

\* ImageFragment::flip
flip(self) ==
    Fragment(
        Written(self.width, self.height,
            {<<(self.width - 1) - width_index, height_index,
               self.pixels[width_index][height_index]>> :
                 height_index \in 0..(self.height - 1),
                 width_index \in 0..(self.width - 1)}),
        self.width, self.height)

\* ------------------------------------------------------------------- state
VARIABLES
    pc,             \* where the generation run stands
    \* the arguments of get_wave_function (generation.rs:139)
    image,                      \* the decoded sample image
    fragment_width,
    fragment_height,
    is_reflection_permitted,
    is_rotation_permitted,
    is_periodic,
    contains_ground,
    \* struct Canvas (generation.rs:121-127)
    width,
    height,
    been_built,
    pixels,
    \* locals of get_wave_function that outlive a phase
    image_fragments,
    image_fragment_duplicates_total_per_image_fragment,
    ground_image_fragments,
    node_state_collections,
    node_state_collection_ids_per_height_offset_per_width_offset,
    nodes,
    \* CollapsedWaveFunction::node_state_per_node (generation.rs:362,373)
    node_state_per_node,
    \* the operation study
    op_original,    \* the fragment the calls started from
    op_fragment,    \* the fragment after the calls so far
    op_applied,     \* the calls made, in order
    \* the task spawned by new_quadrant (generator.rs:23-44)
    scan_state,     \* "Waiting" (in write()), "Scanning", "Finished", "Panicked"
    scan_x,         \* x and y of the pixel loops (generator.rs:31-32)
    scan_y,
    \* the channel of new_quadrant (generator.rs:21)
    channel,        \* the MeshResults sent and not yet received, oldest first
    sent,           \* every MeshResult a send() has put into the channel, in order
    \* the frame loop (main.rs:46-99) and gen_maze_async (generator.rs:49-64)
    polling,        \* inside the while loop of gen_maze_async
    received,       \* the meshes added to the renderer, in order
    global_mesh_counter,
    should_close    \* el.window.should_close() has ended the frame loop

args == <<image, fragment_width, fragment_height, is_reflection_permitted,
          is_rotation_permitted, is_periodic, contains_ground>>
canvas == <<width, height, been_built, pixels>>
extracted == <<image_fragments, image_fragment_duplicates_total_per_image_fragment,
               ground_image_fragments>>
constraints == <<node_state_collections,
                 node_state_collection_ids_per_height_offset_per_width_offset>>
ops == <<op_original, op_fragment, op_applied>>
run == <<scan_state, scan_x, scan_y, channel, sent, polling, received,
         global_mesh_counter, should_close>>

vars == <<pc, args, canvas, extracted, constraints, nodes, node_state_per_node, ops, run>>

\* the empty HashMap / HashSet / Vec
EmptyMap == [x \in {} |-> 0]

\* ------------------------------------------------------ fragment extraction
\* ImageFragment::new_from_image
new_from_image(img, width_index, height_index, fw, fh) ==
    Fragment(
        Written(fw, fh,
            {<<pixel_width_offset, pixel_height_offset,
               img.pixels[width_index + pixel_width_offset][height_index + pixel_height_offset]>> :
                 pixel_height_offset \in 0..(fh - 1),
                 pixel_width_offset \in 0..(fw - 1)}),
        fw, fh)

\* the oriented fragments of one window without the last rotation of the
\* flipped fragment
oriented_image_fragments_seven(base, reflection, rotation) ==
    LET r1 == rotate(base)
        r2 == rotate(r1)
        r3 == rotate(r2)
        f0 == flip(r3)
        f1 == rotate(f0)
        f2 == rotate(f1)
    IN  IF reflection
        THEN IF rotation
             THEN <<base, r1, r2, r3, f0, f1, f2>>
             ELSE <<base, flip(base)>>
        ELSE IF rotation
             THEN <<base, r1, r2, r3>>
             ELSE <<base>>

\* oriented_image_fragments of one window (generation.rs:153-191)
oriented_image_fragments(base, reflection, rotation) ==
    LET r1 == rotate(base)
        r2 == rotate(r1)
        r3 == rotate(r2)
        f0 == flip(r3)
        f1 == rotate(f0)
        f2 == rotate(f1)
        f3 == rotate(f2)
    IN  IF reflection
        THEN IF rotation
             THEN <<base, r1, r2, r3, f0, f1, f2, f3>>
             ELSE <<base, flip(base)>>
        ELSE IF rotation
             THEN <<base, r1, r2, r3>>
             ELSE <<base>>

\* the windows of the sample per row and per column (generation.rs:151-152)
WindowRows(img, fh) == img.height - (fh - 1)
WindowColumns(img, fw) == img.width - (fw - 1)

\* the k-th window visited, rows outermost: <<image_width_index, image_height_index>>
WindowAt(img, fw, k) == <<k % WindowColumns(img, fw), k \div WindowColumns(img, fw)>>

\* the base fragment of the k-th window (generation.rs:154)
BaseAt(img, fw, fh, k) ==
    new_from_image(img, WindowAt(img, fw, k)[1], WindowAt(img, fw, k)[2], fw, fh)

\* the insertion that forgets to add to the count of a fragment already present
count_fragment_overwrite(totals, image_fragment) ==
    [f \in DOMAIN totals \cup {image_fragment} |->
        IF f = image_fragment THEN 1 ELSE totals[f]]

\* one pass of the insertion loop (generation.rs:194-199)
count_fragment(totals, image_fragment) ==
    IF image_fragment \notin DOMAIN totals
    THEN [f \in DOMAIN totals \cup {image_fragment} |->
            IF f = image_fragment THEN 1 ELSE totals[f]]
    ELSE [totals EXCEPT ![image_fragment] = @ + 1]

\* the insertion loop over one window's oriented fragments (generation.rs:193-202)
RECURSIVE count_oriented(_, _, _)
count_oriented(totals, oriented, i) ==
    IF i > Len(oriented) THEN totals
    ELSE count_oriented(count_fragment(totals, oriented[i]), oriented, i + 1)

\* the window loops from the k-th window on (generation.rs:151-204)
RECURSIVE count_windows(_, _, _, _, _, _, _)
count_windows(totals, img, fw, fh, reflection, rotation, k) ==
    IF k >= WindowRows(img, fh) * WindowColumns(img, fw) THEN totals
    ELSE count_windows(
            count_oriented(totals,
                oriented_image_fragments(BaseAt(img, fw, fh, k), reflection, rotation), 1),
            img, fw, fh, reflection, rotation, k + 1)

\* ground_image_fragments after the window loops (generation.rs:156-158)
ground_fragments(img, fw, fh) ==
    {BaseAt(img, fw, fh, k) :
        k \in {j \in 0..(WindowRows(img, fh) * WindowColumns(img, fw) - 1) :
                 WindowAt(img, fw, j)[2] + 1 = WindowRows(img, fh)}}

\* get_wave_function, lines 147-204: the catalog, its totals and the ground set
ExtractFragments ==
    /\ pc = "Empty"
    /\ LET totals == count_windows(EmptyMap, image, fragment_width, fragment_height,
                        is_reflection_permitted, is_rotation_permitted, 0)
       IN  /\ image_fragment_duplicates_total_per_image_fragment' = totals
           /\ image_fragments' = DOMAIN totals
    /\ ground_image_fragments' = ground_fragments(image, fragment_width, fragment_height)
    /\ pc' = "Extracted"
    /\ UNCHANGED <<args, canvas, constraints, nodes, node_state_per_node, ops, run>>

\* ------------------------------------------------------ adjacency constraints
\* `n as i8` of an unsigned n
AsI8(n) ==
    LET m == n % (2 ^ I8Bits)
    IN  IF m >= 2 ^ (I8Bits - 1) THEN m - 2 ^ I8Bits ELSE m

Abs(x) == IF x < 0 THEN 0 - x ELSE x

\* the offset filter that lets the diagonals through
keep_offset_with_diagonals(width_offset, height_offset) ==
    ~(height_offset = 0 /\ width_offset = 0)

\* the offsets a collection is set up for (generation.rs:224-225, 279-280)
keep_offset(width_offset, height_offset) ==
    ~(\/ height_offset = 0 /\ width_offset = 0
      \/ Abs(height_offset) = 1 /\ Abs(width_offset) = 1)

\* the k-th <<width_offset, height_offset>> of the loops `for width_offset in
\* -1..=1 { for height_offset in -1..=1` (generation.rs:220-222, 277-278)
OffsetAt(k) == <<(k \div 3) - 1, (k % 3) - 1>>

\* the offsets that pass the filter, in loop order
LoopOffsets ==
    SelectSeq([k \in 1..9 |-> OffsetAt(k - 1)], LAMBDA o : keep_offset(o[1], o[2]))

\* is_overlapping comparing the two fragments pixel by pixel without the shift
is_overlapping_unshifted(self, other, width_offset, height_offset) ==
    IF \E w \in 0..(self.width - 1), h \in 0..(self.height - 1) :
          \/ w >= other.width
          \/ h >= other.height
    THEN "panic"
    ELSE IF \E w \in 0..(self.width - 1), h \in 0..(self.height - 1) :
               other.pixels[w][h] # self.pixels[w][h]
         THEN "false"
         ELSE "true"

\* ImageFragment::is_overlapping: "true", "false", or "panic" when an index
\* into other.pixels is out of bounds (generation.rs:52).  A row is scanned
\* up to its first mismatch (the break leaves the inner loop only); the flag
\* stays set, and the remaining rows are still scanned.
is_overlapping(self, other, width_offset, height_offset) ==
    LET rows == Max(0, height_offset)..
                  (Min(AsI8(self.height), height_offset + AsI8(self.height)) - 1)
        cols == Max(0, width_offset)..
                  (Min(AsI8(self.width), width_offset + AsI8(self.width)) - 1)
        Event(w, h) ==
            LET other_width_index == w - width_offset
                other_height_index == h - height_offset
            IN  IF \/ other_width_index \notin 0..(other.width - 1)
                   \/ other_height_index \notin 0..(other.height - 1)
                THEN "panic"
                ELSE IF other.pixels[other_width_index][other_height_index]
                          # self.pixels[w][h]
                     THEN "mismatch"
                     ELSE "equal"
        RowOutcome(h) ==
            LET stops == {w \in cols : Event(w, h) # "equal"}
            IN  IF stops = {} THEN "equal"
                ELSE Event(CHOOSE w \in stops : \A v \in stops : w <= v, h)
    IN  IF \E h \in rows : RowOutcome(h) = "panic" THEN "panic"
        ELSE IF \E h \in rows : RowOutcome(h) = "mismatch" THEN "false"
        ELSE "true"

\* a set as a sequence, in the order a HashSet happens to iterate
RECURSIVE SeqOf(_)
SeqOf(S) ==
    IF S = {} THEN <<>>
    ELSE LET x == CHOOSE y \in S : TRUE IN <<x>> \o SeqOf(S \ {x})

\* permitted_node_states of one root and one offset (generation.rs:226-233)
permitted_node_states(fragments, root_image_fragment, width_offset, height_offset) ==
    {other_image_fragment \in fragments :
        is_overlapping(root_image_fragment, other_image_fragment,
                       width_offset, height_offset) = "true"}

\* whether some call of is_overlapping in the loops of lines 215-240 panics
overlap_panics(fragments) ==
    \E root \in fragments, other \in fragments, i \in 1..Len(LoopOffsets) :
        is_overlapping(root, other, LoopOffsets[i][1], LoopOffsets[i][2]) = "panic"

\* the <<root, offset>> pairs a NodeStateCollection is created for, in creation
\* order (generation.rs:244-247); the i-th gets the i-th fresh Uuid
collection_keys(fragments) ==
    LET roots == SeqOf(fragments)
        n == Len(LoopOffsets)
    IN  [i \in 1..(Len(roots) * n) |->
            <<roots[((i - 1) \div n) + 1], LoopOffsets[((i - 1) % n) + 1]>>]

\* get_wave_function, lines 206-256: one NodeStateCollection per root and offset
BuildNodeStateCollections ==
    /\ pc = "Extracted"
    /\ IF overlap_panics(image_fragments)
       THEN /\ pc' = "OverlapPanicked"
            /\ UNCHANGED constraints
       ELSE LET keys == collection_keys(image_fragments)
            IN  /\ node_state_collections' =
                     [i \in 1..Len(keys) |->
                        [id |-> i,
                         node_state |-> keys[i][1],
                         node_states |-> permitted_node_states(image_fragments,
                                            keys[i][1], keys[i][2][1], keys[i][2][2])]]
                /\ node_state_collection_ids_per_height_offset_per_width_offset' =
                     [o \in {keys[i][2] : i \in 1..Len(keys)} |->
                        SelectSeq([i \in 1..Len(keys) |-> i], LAMBDA i : keys[i][2] = o)]
                /\ pc' = "Constrained"
    /\ UNCHANGED <<args, canvas, extracted, nodes, node_state_per_node, ops, run>>

\* ------------------------------------------------------------ the node grid
\* the node grid's columns and rows, as u32 (generation.rs:263,265)
GridWidth == width - (fragment_width - 1)
GridHeight == height - (fragment_height - 1)

\* the neighbour index with no wrap-around in periodic mode
neighbor_index_no_wrap(index, offset, dim, periodic) == index + offset

\* neighbor_width_index / neighbor_height_index (generation.rs:281-295), in i8
neighbor_index(index, offset, dim, periodic) ==
    LET n == index + offset
    IN  IF periodic
        THEN IF n < 0 THEN n + AsI8(dim)
             ELSE IF n >= AsI8(dim) THEN n - AsI8(dim)
             ELSE n
        ELSE n

\* node_state_collection_ids_per_neighbor_node_id after the offsets from the
\* i-th on (generation.rs:276-308); a later insert replaces an earlier one
RECURSIVE neighbor_ids(_, _, _, _)
neighbor_ids(map, node_width_index, node_height_index, i) ==
    IF i > Len(LoopOffsets) THEN map
    ELSE LET o == LoopOffsets[i]
             nw == neighbor_index(node_width_index, o[1], GridWidth, is_periodic)
             nh == neighbor_index(node_height_index, o[2], GridHeight, is_periodic)
             live == /\ nw >= 0
                     /\ nw < AsI8(GridWidth)
                     /\ nh >= 0
                     /\ nh < AsI8(GridHeight)
             ids == node_state_collection_ids_per_height_offset_per_width_offset[o]
         IN  neighbor_ids(
                IF live
                THEN [k \in DOMAIN map \cup {<<nw, nh>>} |->
                        IF k = <<nw, nh>> THEN ids ELSE map[k]]
                ELSE map,
                node_width_index, node_height_index, i + 1)

\* the candidate map with the two ground branches the wrong way round
node_state_ratio_swapped(node_height_index) ==
    LET totals == image_fragment_duplicates_total_per_image_fragment
        keep == IF contains_ground
                THEN IF node_height_index + 1 = AsI8(GridHeight)
                     THEN {f \in DOMAIN totals : f \notin ground_image_fragments}
                     ELSE {f \in DOMAIN totals : f \in ground_image_fragments}
                ELSE DOMAIN totals
    IN  [f \in keep |-> totals[f]]

\* the candidate map that applies the ground branches whatever contains_ground
node_state_ratio_always_ground(node_height_index) ==
    LET totals == image_fragment_duplicates_total_per_image_fragment
        keep == IF node_height_index + 1 = AsI8(GridHeight)
                THEN {f \in DOMAIN totals : f \in ground_image_fragments}
                ELSE {f \in DOMAIN totals : f \notin ground_image_fragments}
    IN  [f \in keep |-> totals[f]]

\* node_state_ratio_per_node_state_id (generation.rs:310-329)
node_state_ratio(node_height_index) ==
    LET totals == image_fragment_duplicates_total_per_image_fragment
        keep == IF contains_ground
                THEN IF node_height_index + 1 = AsI8(GridHeight)
                     THEN {f \in DOMAIN totals : f \in ground_image_fragments}
                     ELSE {f \in DOMAIN totals : f \notin ground_image_fragments}
                ELSE DOMAIN totals
    IN  [f \in keep |-> totals[f]]

\* the bounds of the node loops, `0..(...) as i8` (generation.rs:273-274)
NodeColumns == Max(0, AsI8(GridWidth))
NodeRows == Max(0, AsI8(GridHeight))

\* get_wave_function, lines 258-336: the nodes, columns outermost
BuildNodes ==
    /\ pc = "Constrained"
    /\ nodes' =
         [k \in 1..(NodeColumns * NodeRows) |->
            LET node_width_index == (k - 1) \div NodeRows
                node_height_index == (k - 1) % NodeRows
            IN  [id |-> <<node_width_index, node_height_index>>,
                 node_state_ratio_per_node_state_id |-> node_state_ratio(node_height_index),
                 node_state_collection_ids_per_neighbor_node_id |->
                    neighbor_ids(EmptyMap, node_width_index, node_height_index, 1)]]
    /\ pc' = "ConstraintsBuilt"
    /\ UNCHANGED <<args, canvas, extracted, constraints, node_state_per_node, ops, run>>

\* ------------------------------------------------------ the external solver
\* the assignments the solver may return: one candidate state per node
Assignments ==
    LET ids == {nodes[k].id : k \in 1..Len(nodes)}
        candidates(id) ==
            DOMAIN (CHOOSE n \in {nodes[k] : k \in 1..Len(nodes)} : n.id = id)
                        .node_state_ratio_per_node_state_id
    IN  {a \in [ids -> image_fragments] : \A id \in ids : a[id] \in candidates(id)}

\* the solver called before the nodes are built
Collapse_before_nodes ==
    /\ pc = "Constrained"
    /\ node_state_per_node' = EmptyMap
    /\ pc' = "Collapsed"
    /\ UNCHANGED <<args, canvas, extracted, constraints, nodes, ops, run>>

\* the solver called again after it reported a contradiction
Collapse_retries ==
    /\ pc \in {"ConstraintsBuilt", "Contradiction"}
    /\ \E a \in Assignments : node_state_per_node' = a
    /\ pc' = "Collapsed"
    /\ UNCHANGED <<args, canvas, extracted, constraints, nodes, ops, run>>

\* wave_function.validate() and collapse() return Ok (generation.rs:356-362)
Collapse ==
    /\ pc = "ConstraintsBuilt"
    /\ \E a \in Assignments : node_state_per_node' = a
    /\ pc' = "Collapsed"
    /\ UNCHANGED <<args, canvas, extracted, constraints, nodes, ops, run>>

\* validate() or collapse() returns Err and the unwrap panics
\* (generation.rs:356,362)
Contradiction ==
    /\ pc = "ConstraintsBuilt"
    /\ pc' = "Contradiction"
    /\ UNCHANGED <<args, canvas, extracted, constraints, nodes, node_state_per_node, ops, run>>

\* ------------------------------------------------------------ reconstruction
\* the buffer of lines 380-387
BackgroundBuffer == [x \in 0..(width - 1) |-> [y \in 0..(height - 1) |-> BackgroundPixel]]

\* the block test that forgets the last grid row
writes_block_last_column_only(width_index, height_index) ==
    width_index + 1 = GridWidth

\* whether the node at <<width_index, height_index>> writes its whole fragment
\* (generation.rs:393)
writes_block(width_index, height_index) ==
    \/ width_index + 1 = GridWidth
    \/ height_index + 1 = GridHeight

\* the writes of one node that always copies the top-left pixel only
node_writes_top_left_only(width_index, height_index, node_state) ==
    {<<width_index, height_index, node_state.pixels[0][0]>>}

\* the writes of one node: <<x, y, colour>> (generation.rs:393-402)
node_writes(width_index, height_index, node_state) ==
    IF writes_block(width_index, height_index)
    THEN {<<width_index + pixel_width_index, height_index + pixel_height_index,
            node_state.pixels[pixel_width_index][pixel_height_index]>> :
              pixel_height_index \in 0..(node_state.height - 1),
              pixel_width_index \in 0..(node_state.width - 1)}
    ELSE {<<width_index, height_index, node_state.pixels[0][0]>>}

\* the buffer after the nodes from the k-th on have written, columns outermost
\* (generation.rs:389-404)
RECURSIVE write_nodes(_, _)
write_nodes(buffer, k) ==
    IF k >= GridWidth * GridHeight THEN buffer
    ELSE LET width_index == k \div GridHeight
             height_index == k % GridHeight
             writes == node_writes(width_index, height_index,
                                   node_state_per_node[<<width_index, height_index>>])
         IN  write_nodes(
                [x \in DOMAIN buffer |-> [y \in DOMAIN buffer[x] |->
                    IF \E t \in writes : t[1] = x /\ t[2] = y
                    THEN (CHOOSE t \in writes : t[1] = x /\ t[2] = y)[3]
                    ELSE buffer[x][y]]],
                k + 1)

\* whether the loops of lines 389-404 panic: a grid position without a node
\* state (the unwrap of line 391) or a write outside the buffer (line 396)
write_panics ==
    \E width_index \in 0..(GridWidth - 1), height_index \in 0..(GridHeight - 1) :
        \/ <<width_index, height_index>> \notin DOMAIN node_state_per_node
        \/ \E t \in node_writes(width_index, height_index,
                                node_state_per_node[<<width_index, height_index>>]) :
              t[1] >= width \/ t[2] >= height

\* write, lines 364-407: the output buffer from the collapsed wave function
Reconstruct ==
    /\ pc = "Collapsed"
    /\ IF write_panics
       THEN /\ pc' = "WritePanicked"
            /\ UNCHANGED <<been_built, pixels>>
       ELSE /\ pixels' = write_nodes(BackgroundBuffer, 0)
            /\ been_built' = TRUE
            /\ pc' = "Reconstructed"
    /\ UNCHANGED <<args, width, height, extracted, constraints, nodes,
                   node_state_per_node, ops, run>>

\* --------------------------------------------------------- the initial states
\* every sample image of at most maxPixels pixels
ImagesUpTo(maxPixels) == FragmentsUpTo(maxPixels)

\* the single-colour square sample images of side 1..maxDim
MonoImages(maxDim) ==
    {Fragment([x \in 0..(d - 1) |-> [y \in 0..(d - 1) |-> c]], d, d) :
        d \in 1..maxDim, c \in SampleColors}

\* the operation study at rest
OpsIdle ==
    /\ op_original = Fragment([x \in 0..0 |-> [y \in 0..0 |-> ZeroPixel]], 1, 1)
    /\ op_fragment = op_original
    /\ op_applied = <<>>

\* nothing spawned, sent or received yet, the window open
RunIdle ==
    /\ scan_state = "Waiting"
    /\ scan_x = 0
    /\ scan_y = 0
    /\ channel = <<>>
    /\ sent = <<>>
    /\ polling = FALSE
    /\ received = <<>>
    /\ global_mesh_counter = 0
    /\ should_close = FALSE

\* Canvas::new (generation.rs:130-138) and empty locals
Fresh ==
    /\ pc = "Empty"
    /\ been_built = FALSE
    /\ pixels = <<>>
    /\ image_fragments = {}
    /\ image_fragment_duplicates_total_per_image_fragment = EmptyMap
    /\ ground_image_fragments = {}
    /\ node_state_collections = <<>>
    /\ node_state_collection_ids_per_height_offset_per_width_offset = EmptyMap
    /\ nodes = <<>>
    /\ node_state_per_node = EmptyMap

\* sample study: every small sample, every fragment size that fits, every
\* orientation flag, on the smallest grid with a last row and another row
InitSampleStudy ==
    /\ image \in ImagesUpTo(MaxImagePixels)
    /\ fragment_width \in 1..image.width
    /\ fragment_height \in 1..image.height
    /\ is_reflection_permitted \in BOOLEAN
    /\ is_rotation_permitted \in BOOLEAN
    /\ is_periodic = FALSE
    /\ contains_ground \in BOOLEAN
    /\ width = fragment_width
    /\ height = fragment_height + 1

\* the node-grid sides of the topology study: the small ones, and the first
\* one that does not fit an i8
TopologyGridSides == (1..MaxGridDim) \cup {2 ^ (I8Bits - 1)}

\* topology study: single-colour samples on every grid
InitTopologyStudy ==
    /\ image \in MonoImages(MaxMonoDim)
    /\ fragment_width \in 1..Min(image.width, MaxFragDim)
    /\ fragment_height \in 1..Min(image.height, MaxFragDim)
    /\ is_reflection_permitted = FALSE
    /\ is_rotation_permitted = FALSE
    /\ is_periodic \in BOOLEAN
    /\ contains_ground \in BOOLEAN
    /\ width \in {fragment_width + g - 1 : g \in TopologyGridSides}
    /\ height \in {fragment_height + g - 1 : g \in TopologyGridSides}

\* solve study: every small sample on every grid of a few nodes
InitSolveStudy ==
    /\ image \in ImagesUpTo(MaxImagePixels)
    /\ fragment_width \in 1..image.width
    /\ fragment_height \in 1..image.height
    /\ is_reflection_permitted = FALSE
    /\ is_rotation_permitted = FALSE
    /\ is_periodic = FALSE
    /\ contains_ground = FALSE
    /\ \E g \in {e \in (1..MaxSolveNodes) \X (1..MaxSolveNodes) :
                    e[1] * e[2] <= MaxSolveNodes} :
          /\ width = fragment_width + g[1] - 1
          /\ height = fragment_height + g[2] - 1

Init ==
    /\ Fresh
    /\ OpsIdle
    /\ RunIdle
    /\ \/ InitSampleStudy
       \/ InitTopologyStudy
       \/ InitSolveStudy

Next ==
    \/ ExtractFragments
    \/ BuildNodeStateCollections
    \/ BuildNodes
    \/ Collapse
    \/ Contradiction
    \/ Reconstruct

Spec == Init /\ [][Next]_vars

\* the two parts of Spec apart.  The solve study contributes the collapsed
\* and reconstructed states of every assignment, in which the catalog, the
\* collections and the nodes no longer change; the properties of what
\* get_wave_function builds are checked on the sample and topology studies,
\* those of the reconstruction on the solve study.
InitBuild ==
    /\ Fresh
    /\ OpsIdle
    /\ RunIdle
    /\ \/ InitSampleStudy
       \/ InitTopologyStudy

SpecBuild == InitBuild /\ [][Next]_vars

InitSolve ==
    /\ Fresh
    /\ OpsIdle
    /\ RunIdle
    /\ InitSolveStudy

SpecSolve == InitSolve /\ [][Next]_vars

\* ----------------------------------------------- the operation study
InitOps ==
    /\ op_original \in FragmentsUpTo(MaxOpPixels)
    /\ op_fragment = op_original
    /\ op_applied = <<>>
    /\ Fresh
    /\ RunIdle
    /\ image = Fragment([x \in 0..0 |-> [y \in 0..0 |-> WallPixel]], 1, 1)
    /\ fragment_width = 1
    /\ fragment_height = 1
    /\ is_reflection_permitted = FALSE
    /\ is_rotation_permitted = FALSE
    /\ is_periodic = FALSE
    /\ contains_ground = FALSE
    /\ width = 1
    /\ height = 1

\* image_fragment = image_fragment.rotate()   (generation.rs:164)
ApplyRotate ==
    /\ Len(op_applied) < MaxOps
    /\ op_fragment' = rotate(op_fragment)
    /\ op_applied' = Append(op_applied, "rotate")
    /\ UNCHANGED <<pc, args, canvas, extracted, constraints, nodes,
                   node_state_per_node, op_original, run>>

\* image_fragment = image_fragment.flip()     (generation.rs:170)
ApplyFlip ==
    /\ Len(op_applied) < MaxOps
    /\ op_fragment' = flip(op_fragment)
    /\ op_applied' = Append(op_applied, "flip")
    /\ UNCHANGED <<pc, args, canvas, extracted, constraints, nodes,
                   node_state_per_node, op_original, run>>

NextOps == ApplyRotate \/ ApplyFlip

SpecOps == InitOps /\ [][NextOps]_vars

\* ------------------------------------------------------------ the run study
\* main (main.rs:39-99): new_quadrant spawns the generation task, the frame
\* loop polls its channel once per frame until the window closes and main
\* returns.  The task's canvas and fragment size are fixed (generator.rs:24,
\* generation.rs:340-351: 12 x 12, 3 x 3 of rooms.bmp, reflection and rotation
\* on); here they range over small samples, square fragment sizes and canvases
\* of two columns or more.
InitRunStudy ==
    /\ image \in ImagesUpTo(MaxRunImagePixels)
    /\ fragment_width \in 1..Min(image.width, image.height)
    /\ fragment_height = fragment_width
    /\ is_reflection_permitted = TRUE
    /\ is_rotation_permitted = TRUE
    /\ is_periodic = FALSE
    /\ contains_ground = FALSE
    /\ \E g \in (1..MaxRunCanvasPixels) \X (1..MaxRunCanvasPixels) :
          /\ width = fragment_width + g[1] - 1
          /\ height = fragment_height + g[2] - 1
          /\ width >= 2
          /\ width * height <= MaxRunCanvasPixels

InitRun ==
    /\ Fresh
    /\ OpsIdle
    /\ RunIdle
    /\ InitRunStudy

\* canvas.write() inside the spawned task (generator.rs:26), phase by phase
Generate ==
    /\ ~should_close
    /\ Next

\* the spawned task has ended: it ran to its end or it panicked
TaskEnded ==
    \/ pc \in {"OverlapPanicked", "Contradiction", "WritePanicked"}
    \/ scan_state \in {"Finished", "Panicked"}

\* MeshResult { shape: mesh, position } for the pixel <<x, y>> (generator.rs:34-37)
MeshResultAt(x, y) ==
    [shape |-> <<200, 200, 200>>, position |-> <<x * 200, 0, y * 200>>]

\* the loop variables after the pixel <<x, y>>: the next pixel, columns
\* outermost, the inner bound being pixels[1].len() (generator.rs:31-32)
AfterPixel(x, y) ==
    IF y + 1 < Cardinality(DOMAIN pixels[1]) THEN <<"Scanning", x, y + 1>>
    ELSE IF x + 1 < Cardinality(DOMAIN pixels) THEN <<"Scanning", x + 1, 0>>
    ELSE <<"Finished", x, y>>

\* generator.rs:27-32: print(), then the loops are entered; pixels[1] panics
\* on a buffer of one column
StartScan ==
    /\ ~should_close
    /\ pc = "Reconstructed"
    /\ scan_state = "Waiting"
    /\ scan_state' = IF 1 \notin DOMAIN pixels THEN "Panicked" ELSE "Scanning"
    /\ UNCHANGED <<pc, args, canvas, extracted, constraints, nodes, node_state_per_node,
                   ops, scan_x, scan_y, channel, sent, polling, received,
                   global_mesh_counter, should_close>>

\* a send that does not wait for room in the channel and loses the message
SendMeshResult_try_send ==
    /\ ~should_close
    /\ scan_state = "Scanning"
    /\ pixels[scan_x][scan_y] = WallPixel
    /\ channel' = IF Len(channel) < ChannelCapacity
                  THEN Append(channel, MeshResultAt(scan_x, scan_y))
                  ELSE channel
    /\ sent' = Append(sent, MeshResultAt(scan_x, scan_y))
    /\ scan_state' = AfterPixel(scan_x, scan_y)[1]
    /\ scan_x' = AfterPixel(scan_x, scan_y)[2]
    /\ scan_y' = AfterPixel(scan_x, scan_y)[3]
    /\ UNCHANGED <<pc, args, canvas, extracted, constraints, nodes, node_state_per_node,
                   ops, polling, received, global_mesh_counter, should_close>>

\* generator.rs:33-39: the pixel is the wall colour; send().await completes
\* once the channel has room
SendMeshResult ==
    /\ ~should_close
    /\ scan_state = "Scanning"
    /\ pixels[scan_x][scan_y] = WallPixel
    /\ Len(channel) < ChannelCapacity
    /\ channel' = Append(channel, MeshResultAt(scan_x, scan_y))
    /\ sent' = Append(sent, MeshResultAt(scan_x, scan_y))
    /\ scan_state' = AfterPixel(scan_x, scan_y)[1]
    /\ scan_x' = AfterPixel(scan_x, scan_y)[2]
    /\ scan_y' = AfterPixel(scan_x, scan_y)[3]
    /\ UNCHANGED <<pc, args, canvas, extracted, constraints, nodes, node_state_per_node,
                   ops, polling, received, global_mesh_counter, should_close>>

\* generator.rs:33: the pixel is of another colour
SkipPixel ==
    /\ ~should_close
    /\ scan_state = "Scanning"
    /\ pixels[scan_x][scan_y] # WallPixel
    /\ scan_state' = AfterPixel(scan_x, scan_y)[1]
    /\ scan_x' = AfterPixel(scan_x, scan_y)[2]
    /\ scan_y' = AfterPixel(scan_x, scan_y)[3]
    /\ UNCHANGED <<pc, args, canvas, extracted, constraints, nodes, node_state_per_node,
                   ops, channel, sent, polling, received, global_mesh_counter,
                   should_close>>

\* main.rs:49: the frame loop calls gen_maze_async
CallGenMazeAsync ==
    /\ ~should_close
    /\ ~polling
    /\ polling' = TRUE
    /\ UNCHANGED <<pc, args, canvas, extracted, constraints, nodes, node_state_per_node,
                   ops, scan_state, scan_x, scan_y, channel, sent, received,
                   global_mesh_counter, should_close>>

\* generator.rs:50-62: try_recv() is Ok; the mesh is added under the counter
TryRecvOk ==
    /\ ~should_close
    /\ polling
    /\ channel # <<>>
    /\ received' = Append(received, [mesh_result |-> Head(channel),
                                     counter |-> global_mesh_counter])
    /\ global_mesh_counter' = global_mesh_counter + 1
    /\ channel' = Tail(channel)
    /\ UNCHANGED <<pc, args, canvas, extracted, constraints, nodes, node_state_per_node,
                   ops, scan_state, scan_x, scan_y, sent, polling, should_close>>

\* the receive of recv().await: on an empty channel it returns only once the
\* sender is gone
TryRecvErr_waits_for_sender ==
    /\ ~should_close
    /\ polling
    /\ channel = <<>>
    /\ TaskEnded
    /\ polling' = FALSE
    /\ UNCHANGED <<pc, args, canvas, extracted, constraints, nodes, node_state_per_node,
                   ops, scan_state, scan_x, scan_y, channel, sent, received,
                   global_mesh_counter, should_close>>

\* generator.rs:50: try_recv() is Err (Empty, or Disconnected once the task
\* has ended); the while loop ends and gen_maze_async returns
TryRecvErr ==
    /\ ~should_close
    /\ polling
    /\ channel = <<>>
    /\ polling' = FALSE
    /\ UNCHANGED <<pc, args, canvas, extracted, constraints, nodes, node_state_per_node,
                   ops, scan_state, scan_x, scan_y, channel, sent, received,
                   global_mesh_counter, should_close>>

\* main.rs:46: should_close() is true at the top of the loop; main returns
CloseWindow ==
    /\ ~should_close
    /\ ~polling
    /\ should_close' = TRUE
    /\ UNCHANGED <<pc, args, canvas, extracted, constraints, nodes, node_state_per_node,
                   ops, scan_state, scan_x, scan_y, channel, sent, polling, received,
                   global_mesh_counter>>

NextRun ==
    \/ Generate
    \/ StartScan
    \/ SendMeshResult
    \/ SkipPixel
    \/ CallGenMazeAsync
    \/ TryRecvOk
    \/ TryRecvErr
    \/ CloseWindow

SpecRun == InitRun /\ [][NextRun]_vars

\* the next step of the spawned task once write() has returned, and the next
\* step of the frame loop inside or towards gen_maze_async: each is one
\* sequential thread of control
ScanStep == StartScan \/ SendMeshResult \/ SkipPixel
FrameStep == CallGenMazeAsync \/ TryRecvOk \/ TryRecvErr

\* the runtime keeps running the spawned task, and the frame loop keeps
\* polling for as long as the window is open
RunFairness ==
    /\ WF_vars(ScanStep)
    /\ WF_vars(FrameStep)

SpecRunFair == InitRun /\ [][NextRun]_vars /\ RunFairness

\* =================================================================== claims
\* the four orthogonal offsets <<width_offset, height_offset>>
Orthogonal == {<<0, -1>>, <<0, 1>>, <<-1, 0>>, <<1, 0>>}

\* the phases in which the NodeStateCollections exist
CollectionsBuilt ==
    pc \in {"Constrained", "ConstraintsBuilt", "Collapsed", "Contradiction",
            "Reconstructed", "WritePanicked"}

\* the phases in which the nodes exist
NodesBuilt ==
    pc \in {"ConstraintsBuilt", "Collapsed", "Contradiction", "Reconstructed",
            "WritePanicked"}

\* the elements of a sequence
Range(s) == {s[i] : i \in DOMAIN s}

\* the permitted lists of the collections created for a root and an offset
ListsFor(root, offset) ==
    {c.node_states :
        c \in {d \in Range(node_state_collections) :
                 /\ d.node_state = root
                 /\ offset \in DOMAIN node_state_collection_ids_per_height_offset_per_width_offset
                 /\ d.id \in Range(node_state_collection_ids_per_height_offset_per_width_offset[offset])}}

\* the orientation variants the flags ask for per window
VariantsPerWindow ==
    IF is_reflection_permitted /\ is_rotation_permitted THEN 8
    ELSE IF is_rotation_permitted THEN 4
    ELSE IF is_reflection_permitted THEN 2
    ELSE 1

\* C1: is_overlapping(A, B, dx, dy) returns the same boolean as
\* is_overlapping(B, A, -dx, -dy), for every two fragments of the catalog and
\* every orthogonal offset.  Fails on the code: with a fragment size that is
\* not square and rotation permitted the catalog holds w x h and h x w
\* fragments, and the loops of is_overlapping use self's sides for both.
C1_OverlapSymmetric ==
    pc # "Empty" =>
        \A A \in image_fragments, B \in image_fragments, o \in Orthogonal :
            /\ is_overlapping(A, B, o[1], o[2]) \in {"true", "false"}
            /\ is_overlapping(A, B, o[1], o[2]) = is_overlapping(B, A, 0 - o[1], 0 - o[2])

\* the sample is the 2 x 2 checkerboard and the fragment size is 1 x 1
IsCheckerboard ==
    /\ image.width = 2
    /\ image.height = 2
    /\ image.pixels[0][0] = image.pixels[1][1]
    /\ image.pixels[1][0] = image.pixels[0][1]
    /\ image.pixels[0][0] # image.pixels[1][0]
    /\ fragment_width = 1
    /\ fragment_height = 1

\* the 1 x 1 fragment of one colour
Dot(c) == Fragment([x \in 0..0 |-> [y \in 0..0 |-> c]], 1, 1)

\* C2 as stated: for the checkerboard (reflection and rotation off) the catalog
\* is the two 1 x 1 fragments, each of weight 2, and the constraint set for
\* offset (1,0) from either lists only the other.
C2_CheckerboardListsOnlyOther ==
    (IsCheckerboard /\ ~is_reflection_permitted /\ ~is_rotation_permitted /\ CollectionsBuilt) =>
        LET A == Dot(image.pixels[0][0])
            B == Dot(image.pixels[1][0])
        IN  /\ image_fragments = {A, B}
            /\ image_fragment_duplicates_total_per_image_fragment[A] = 2
            /\ image_fragment_duplicates_total_per_image_fragment[B] = 2
            /\ ListsFor(A, <<1, 0>>) = {{B}}
            /\ ListsFor(B, <<1, 0>>) = {{A}}

\* C2 as amended: for the checkerboard the catalog is the two 1 x 1 fragments,
\* each of weight 2 per orientation variant (2 with reflection and rotation
\* off), and the constraint set for offset (1,0) from either lists both
\* fragments: two 1 x 1 footprints one step apart share no pixel.
C2_CheckerboardListsBoth ==
    (IsCheckerboard /\ CollectionsBuilt) =>
        LET A == Dot(image.pixels[0][0])
            B == Dot(image.pixels[1][0])
        IN  /\ image_fragments = {A, B}
            /\ image_fragment_duplicates_total_per_image_fragment[A] = 2 * VariantsPerWindow
            /\ image_fragment_duplicates_total_per_image_fragment[B] = 2 * VariantsPerWindow
            /\ ListsFor(A, <<1, 0>>) = {{A, B}}
            /\ ListsFor(B, <<1, 0>>) = {{A, B}}

\* C2 witness: the constraint sets of the checkerboard have been built with
\* reflection and rotation off
C2_Witness ==
    /\ IsCheckerboard
    /\ ~is_reflection_permitted
    /\ ~is_rotation_permitted
    /\ pc = "Constrained"
    /\ Cardinality(image_fragments) = 2

\* the sum of a map's values
RECURSIVE SumOf(_)
SumOf(m) ==
    IF DOMAIN m = {} THEN 0
    ELSE LET x == CHOOSE y \in DOMAIN m : TRUE
         IN  m[x] + SumOf([z \in DOMAIN m \ {x} |-> m[z]])

\* the <<window, variant>> pairs of the extraction, and the fragment of each
Generated ==
    (0..(WindowRows(image, fragment_height) * WindowColumns(image, fragment_width) - 1))
        \X (1..VariantsPerWindow)
GeneratedFragment(g) ==
    oriented_image_fragments(BaseAt(image, fragment_width, fragment_height, g[1]),
                             is_reflection_permitted, is_rotation_permitted)[g[2]]

\* the sample is 4 x 4 of one colour, the fragment size 2 x 2, no symmetry
IsMonochromeExample ==
    /\ image.width = 4
    /\ image.height = 4
    /\ \A x \in 0..3, y \in 0..3 : image.pixels[x][y] = image.pixels[0][0]
    /\ fragment_width = 2
    /\ fragment_height = 2
    /\ ~is_reflection_permitted
    /\ ~is_rotation_permitted

\* C3: after extraction the catalog holds exactly the distinct generated
\* fragments, the weight of each is the number of <<window, variant>> pairs
\* that generated it, so every weight is at least 1 and the weights add up to
\* windows x variants; the 4 x 4 single-colour sample with 2 x 2 fragments and
\* no symmetry gives one fragment of weight 9.
C3_CatalogWeights ==
    pc = "Extracted" =>
        LET totals == image_fragment_duplicates_total_per_image_fragment
        IN  /\ image_fragments = {GeneratedFragment(g) : g \in Generated}
            /\ DOMAIN totals = image_fragments
            /\ \A f \in image_fragments :
                 /\ totals[f] = Cardinality({g \in Generated : GeneratedFragment(g) = f})
                 /\ totals[f] >= 1
            /\ SumOf(totals) =
                 WindowRows(image, fragment_height) * WindowColumns(image, fragment_width)
                    * VariantsPerWindow
            /\ IsMonochromeExample =>
                 /\ Cardinality(image_fragments) = 1
                 /\ \A f \in image_fragments : totals[f] = 9

\* C3 witness: the 4 x 4 single-colour sample has been extracted
C3_Witness ==
    /\ pc = "Extracted"
    /\ IsMonochromeExample
    /\ \E f \in image_fragments : image_fragment_duplicates_total_per_image_fragment[f] = 9

\* C4: four rotate() calls in succession give back the width, the height and
\* the pixels of the fragment they started from, square or not.
C4_RotateFourTimes ==
    op_applied = <<"rotate", "rotate", "rotate", "rotate">> =>
        /\ op_fragment.width = op_original.width
        /\ op_fragment.height = op_original.height
        /\ op_fragment.pixels = op_original.pixels

\* C4 witness: four rotations of a fragment that is not square and whose first
\* rotation differs from it
C4_Witness ==
    /\ op_applied = <<"rotate", "rotate", "rotate", "rotate">>
    /\ op_original.width # op_original.height
    /\ \E x \in 0..(op_original.width - 1), y \in 0..(op_original.height - 1) :
          op_original.pixels[x][y] # op_original.pixels[0][0]

\* C5: two flip() calls in succession give back the width, the height and the
\* pixels of the fragment they started from.
C5_FlipTwice ==
    op_applied = <<"flip", "flip">> =>
        /\ op_fragment.width = op_original.width
        /\ op_fragment.height = op_original.height
        /\ op_fragment.pixels = op_original.pixels

\* C5 witness: two flips of a fragment that its flip changes
C5_Witness ==
    /\ op_applied = <<"flip", "flip">>
    /\ flip(op_original) # op_original
    /\ op_original.width # op_original.height

\* C6: the offsets collections are filed under are never (0,0) or a diagonal;
\* once built they are the four orthogonal ones, with exactly one collection
\* per catalog fragment and offset, 4 x |catalog| in all, each under one id.
C6_OrthogonalCollections ==
    LET ids == node_state_collection_ids_per_height_offset_per_width_offset
    IN  /\ DOMAIN ids \subseteq Orthogonal
        /\ CollectionsBuilt =>
             /\ DOMAIN ids = Orthogonal
             /\ Len(node_state_collections) = 4 * Cardinality(image_fragments)
             /\ \A root \in image_fragments, o \in Orthogonal :
                  Cardinality({i \in DOMAIN node_state_collections :
                                 /\ node_state_collections[i].node_state = root
                                 /\ node_state_collections[i].id \in Range(ids[o])}) = 1
             /\ \A i \in DOMAIN node_state_collections :
                  Cardinality({o \in Orthogonal :
                                 node_state_collections[i].id \in Range(ids[o])}) = 1
             /\ Cardinality({node_state_collections[i].id : i \in DOMAIN node_state_collections}) =
                  Len(node_state_collections)

\* C6 witness: the collections of a catalog of several fragments are built
C6_Witness ==
    /\ pc = "Constrained"
    /\ Cardinality(image_fragments) >= 3
    /\ Len(node_state_collections) >= 12

\* the coordinates of the node grid
GridCoordinates == (0..(GridWidth - 1)) \X (0..(GridHeight - 1))

\* the neighbour ids a node holds
NeighborKeys(node) == DOMAIN node.node_state_collection_ids_per_neighbor_node_id

\* C7: in periodic mode a node's neighbours are the four coordinates one step
\* away taken modulo the grid's sides, so a node in column 0 has the node in
\* column GridWidth-1 of its row as a neighbour (and likewise at the other
\* three edges); in non-periodic mode its neighbours are the coordinates one
\* step away that lie inside the grid and nothing else.
C7_NeighborsAtTheEdges ==
    NodesBuilt =>
        \A node \in Range(nodes) :
            LET x == node.id[1]
                y == node.id[2]
            IN  /\ is_periodic =>
                     /\ NeighborKeys(node) =
                          {<<(x + o[1]) % GridWidth, (y + o[2]) % GridHeight>> : o \in Orthogonal}
                     /\ x = 0 => <<GridWidth - 1, y>> \in NeighborKeys(node)
                     /\ x = GridWidth - 1 => <<0, y>> \in NeighborKeys(node)
                     /\ y = 0 => <<x, GridHeight - 1>> \in NeighborKeys(node)
                     /\ y = GridHeight - 1 => <<x, 0>> \in NeighborKeys(node)
                /\ ~is_periodic =>
                     /\ NeighborKeys(node) =
                          {<<x + o[1], y + o[2]>> : o \in Orthogonal} \cap GridCoordinates
                     /\ Cardinality(NeighborKeys(node)) =
                          Cardinality({o \in Orthogonal :
                                         <<x + o[1], y + o[2]>> \in GridCoordinates})

\* C7 witness: a periodic grid three columns wide whose node at column 0 has
\* the node at column 2 as a neighbour
C7_Witness ==
    /\ pc = "ConstraintsBuilt"
    /\ is_periodic
    /\ GridWidth = 3
    /\ \E node \in Range(nodes) :
          /\ node.id = <<0, 0>>
          /\ <<2, 0>> \in NeighborKeys(node)
          /\ <<1, 0>> \in NeighborKeys(node)

\* a map restricted to a set of keys
Restrict(m, keys) == [k \in DOMAIN m \cap keys |-> m[k]]

\* the candidate map of a node
Candidates(node) == node.node_state_ratio_per_node_state_id

\* C8: with contains_ground a node of the last grid row has as candidates
\* exactly the catalog fragments of the ground set, a node of another row
\* exactly the catalog fragments outside it, each with its catalog weight, and
\* no fragment is a candidate in both kinds of row; without contains_ground
\* every node's candidate map is the catalog's weight map.
C8_GroundPartition ==
    NodesBuilt =>
        LET totals == image_fragment_duplicates_total_per_image_fragment
        IN  \A node \in Range(nodes) :
                /\ (contains_ground /\ node.id[2] = GridHeight - 1) =>
                      Candidates(node) = Restrict(totals, ground_image_fragments)
                /\ (contains_ground /\ node.id[2] # GridHeight - 1) =>
                      Candidates(node) = Restrict(totals, image_fragments \ ground_image_fragments)
                /\ ~contains_ground => Candidates(node) = totals
                /\ contains_ground =>
                      \A other \in Range(nodes) :
                          (node.id[2] = GridHeight - 1 /\ other.id[2] # GridHeight - 1) =>
                              DOMAIN Candidates(node) \cap DOMAIN Candidates(other) = {}

\* C8 witness: ground mode, a last-row node and a node of another row, both
\* with candidates
C8_Witness ==
    /\ pc = "ConstraintsBuilt"
    /\ contains_ground
    /\ \E node \in Range(nodes), other \in Range(nodes) :
          /\ node.id[2] = GridHeight - 1
          /\ other.id[2] # GridHeight - 1
          /\ DOMAIN Candidates(node) # {}
          /\ DOMAIN Candidates(other) # {}

\* C9: get_wave_function builds exactly one node per coordinate of
\* [0, GridWidth) x [0, GridHeight) and no other node, also when a side of the
\* grid exceeds 127.  Fails on the code: the node loops run to `... as i8`,
\* which is negative for a side of 128..255, and then build no node.
C9_OneNodePerCoordinate ==
    NodesBuilt =>
        /\ Len(nodes) = GridWidth * GridHeight
        /\ {nodes[k].id : k \in DOMAIN nodes} = GridCoordinates

\* the sample is of one colour
IsMonochrome ==
    \A x \in 0..(image.width - 1), y \in 0..(image.height - 1) :
        image.pixels[x][y] = image.pixels[0][0]

\* C10: after write() has reconstructed, the buffer is width x height, every
\* pixel of it holds the pixel of a chosen fragment that covers it, none holds
\* the background fill (no sample here contains that colour), and for a
\* single-colour sample the whole buffer has the sample's colour.
C10_EveryPixelWritten ==
    pc = "Reconstructed" =>
        /\ been_built
        /\ DOMAIN pixels = 0..(width - 1)
        /\ \A px \in 0..(width - 1) :
             /\ DOMAIN pixels[px] = 0..(height - 1)
             /\ \A py \in 0..(height - 1) :
                  /\ \E id \in DOMAIN node_state_per_node :
                        /\ px - id[1] \in 0..(node_state_per_node[id].width - 1)
                        /\ py - id[2] \in 0..(node_state_per_node[id].height - 1)
                        /\ pixels[px][py] =
                             node_state_per_node[id].pixels[px - id[1]][py - id[2]]
                  /\ pixels[px][py] # BackgroundPixel
                  /\ IsMonochrome => pixels[px][py] = image.pixels[0][0]

\* C10 witness: a reconstruction with a node that writes one pixel only, from
\* fragments of more than one pixel and more than one colour
C10_Witness ==
    /\ pc = "Reconstructed"
    /\ GridWidth >= 2
    /\ GridHeight >= 2
    /\ fragment_width >= 2
    /\ fragment_height >= 2
    /\ \E px \in 0..(width - 1), py \in 0..(height - 1) : pixels[px][py] # pixels[0][0]

\* the phase changes of a generation run.  The states of the run are Empty
\* (here also "Extracted" and "Constrained", the steps that build the
\* constraint sets and the nodes), ConstraintsBuilt, Collapsed and
\* Reconstructed; a panic ends the run in a state of its own.
PhaseChanges ==
    {<<"Empty", "Extracted">>, <<"Extracted", "Constrained">>,
     <<"Extracted", "OverlapPanicked">>, <<"Constrained", "ConstraintsBuilt">>,
     <<"ConstraintsBuilt", "Collapsed">>, <<"ConstraintsBuilt", "Contradiction">>,
     <<"Collapsed", "Reconstructed">>, <<"Collapsed", "WritePanicked">>}

\* all nodes and all constraint sets exist
NodesAndConstraintSetsBuilt ==
    /\ image_fragments # {}
    /\ Len(node_state_collections) = 4 * Cardinality(image_fragments)
    /\ Len(nodes) = NodeColumns * NodeRows

C12_ContradictionAbandonsTheRun ==
    /\ [](pc = "Contradiction" =>
            /\ ~been_built
            /\ pixels = <<>>
            /\ node_state_per_node = EmptyMap
            /\ scan_state = "Waiting"
            /\ sent = <<>>
            /\ channel = <<>>
            /\ received = <<>>
            /\ ~ENABLED Collapse
            /\ ~ENABLED Contradiction
            /\ ~ENABLED Reconstruct
            /\ ~ENABLED SendMeshResult
            /\ (~should_close /\ ~polling) => ENABLED CallGenMazeAsync
            /\ (~should_close /\ polling) => ENABLED TryRecvErr)
    /\ [][pc = "Contradiction" =>
            /\ pc' = "Contradiction"
            /\ UNCHANGED <<canvas, node_state_per_node, scan_state, sent, channel,
                           received, global_mesh_counter>>]_vars

\* C12 witness: a call of gen_maze_async in progress after the contradiction
\* on a grid of several nodes
C12_Witness ==
    /\ pc = "Contradiction"
    /\ polling
    /\ ~should_close
    /\ Len(nodes) >= 2

\* the MeshResults of the meshes added so far
ReceivedMeshResults == [i \in DOMAIN received |-> received[i].mesh_result]

\* C13: a call of gen_maze_async never waits for the generation task: in every
\* state of a call, whatever the task is doing, the call can take its next
\* step; it takes a result exactly when one is in the channel, takes the
\* oldest, and returns exactly when the channel is empty.
C13_PollNeverWaits ==
    /\ []((polling /\ ~should_close) =>
            /\ ENABLED TryRecvOk \/ ENABLED TryRecvErr
            /\ ENABLED TryRecvOk <=> channel # <<>>
            /\ ENABLED TryRecvErr <=> channel = <<>>)
    /\ [][/\ (polling /\ ~polling') =>
                /\ channel = <<>>
                /\ UNCHANGED <<channel, received, global_mesh_counter>>
          /\ received' # received =>
                /\ polling
                /\ polling'
                /\ channel # <<>>
                /\ ReceivedMeshResults' = Append(ReceivedMeshResults, Head(channel))
                /\ channel' = Tail(channel)
          /\ Len(channel') < Len(channel) => received' # received]_vars

\* C13 witness: a call in progress that has taken a result and now finds the
\* channel empty while the task is still scanning
C13_Witness ==
    /\ polling
    /\ ~should_close
    /\ channel = <<>>
    /\ scan_state = "Scanning"
    /\ received # <<>>
    /\ ~TaskEnded

\* the pixels of the buffer, columns outermost, as the loops visit them
RECURSIVE ScanOrder(_)
ScanOrder(k) ==
    IF k >= width * height THEN <<>>
    ELSE <<<<k \div height, k % height>>>> \o ScanOrder(k + 1)

\* the MeshResults of the wall pixels of the buffer, in scan order
WallMeshResults ==
    LET walls == SelectSeq(ScanOrder(0), LAMBDA c : pixels[c[1]][c[2]] = WallPixel)
    IN  [i \in DOMAIN walls |-> MeshResultAt(walls[i][1], walls[i][2])]

\* every MeshResult there will be has been sent and received
Delivered ==
    /\ scan_state = "Finished"
    /\ channel = <<>>
    /\ ReceivedMeshResults = WallMeshResults

\* C14: after a successful generation the task sends one MeshResult for each
\* wall pixel of the buffer and none for another pixel, in scan order; at most
\* one is in the channel; what has been received, then what is in the
\* channel, is what has been sent, so nothing is lost, repeated or reordered;
\* and while the frame loop keeps polling the task finishes and every
\* MeshResult is received.
C14_EveryWallMeshDelivered ==
    /\ [](pc = "Reconstructed" =>
            /\ Len(channel) <= ChannelCapacity
            /\ ReceivedMeshResults \o channel = sent
            /\ Len(sent) <= Len(WallMeshResults)
            /\ \A i \in DOMAIN sent : sent[i] = WallMeshResults[i]
            /\ \A i \in DOMAIN sent, j \in DOMAIN sent : sent[i] = sent[j] => i = j
            /\ scan_state = "Finished" =>
                 \A x \in 0..(width - 1), y \in 0..(height - 1) :
                    Cardinality({i \in DOMAIN sent :
                                   sent[i].position = <<x * 200, 0, y * 200>>}) =
                        IF pixels[x][y] = WallPixel THEN 1 ELSE 0
            /\ scan_state = "Finished" => sent = WallMeshResults)
    /\ (pc = "Reconstructed") ~> (should_close \/ Delivered)

\* C14 witness: the task has finished a buffer with several wall pixels and
\* another pixel, and all its MeshResults have been received
C14_Witness ==
    /\ pc = "Reconstructed"
    /\ ~should_close
    /\ Delivered
    /\ Len(received) >= 2
    /\ \E x \in 0..(width - 1), y \in 0..(height - 1) : pixels[x][y] # WallPixel

\* the orthogonal offsets that lead a node to a node of the grid, and the
\* coordinate each leads to (wrapped in periodic mode)
NeighborOf(node, o) ==
    IF is_periodic
    THEN <<(node.id[1] + o[1]) % GridWidth, (node.id[2] + o[2]) % GridHeight>>
    ELSE <<node.id[1] + o[1], node.id[2] + o[2]>>

\* C15: for every node and every orthogonal offset that leads it to a live
\* neighbour, the node's entry for that neighbour carries the collection ids
\* built for that offset, in periodic mode too.  Fails on the code: the
\* entries are keyed by the neighbour's id, so when two offsets lead to the
\* same neighbour (a periodic grid side of 1 or 2) the later insert replaces
\* the earlier one.
C15_NeighborEntryPerOffset ==
    NodesBuilt =>
        \A node \in Range(nodes), o \in Orthogonal :
            NeighborOf(node, o) \in GridCoordinates =>
                /\ NeighborOf(node, o) \in NeighborKeys(node)
                /\ node.node_state_collection_ids_per_neighbor_node_id[NeighborOf(node, o)] =
                     node_state_collection_ids_per_height_offset_per_width_offset[o]

\* the assignment is overlap-consistent between every two orthogonally
\* adjacent nodes
OverlapConsistent ==
    \A id \in DOMAIN node_state_per_node, o \in Orthogonal :
        <<id[1] + o[1], id[2] + o[2]>> \in DOMAIN node_state_per_node =>
            is_overlapping(node_state_per_node[id],
                           node_state_per_node[<<id[1] + o[1], id[2] + o[2]>>],
                           o[1], o[2]) = "true"

\* C16: after the reconstruction of an overlap-consistent assignment the
\* buffer agrees with every chosen fragment on all of its fw x fh pixels, and
\* every write of every node put the colour the buffer ends with, so the order
\* of the writes does not matter.
C16_OutputAgreesWithFragments ==
    (pc = "Reconstructed" /\ OverlapConsistent) =>
        \A id \in DOMAIN node_state_per_node :
            /\ \A i \in 0..(fragment_width - 1), j \in 0..(fragment_height - 1) :
                  pixels[id[1] + i][id[2] + j] = node_state_per_node[id].pixels[i][j]
            /\ \A t \in node_writes(id[1], id[2], node_state_per_node[id]) :
                  pixels[t[1]][t[2]] = t[3]

\* C16 witness: an overlap-consistent assignment of fragments of more than one
\* pixel, not all the same, on a grid with a node that writes one pixel only
C16_Witness ==
    /\ pc = "Reconstructed"
    /\ OverlapConsistent
    /\ GridWidth >= 2
    /\ GridHeight >= 2
    /\ fragment_width * fragment_height >= 2
    /\ \E a \in DOMAIN node_state_per_node, b \in DOMAIN node_state_per_node :
          node_state_per_node[a] # node_state_per_node[b]

\* every pixel of root inside root's footprint and other's footprint shifted
\* by <<dx, dy>> equals the pixel of other under it
FootprintsAgree(root, other, dx, dy) ==
    \A x \in 0..(root.width - 1), y \in 0..(root.height - 1) :
        (x - dx \in 0..(other.width - 1) /\ y - dy \in 0..(other.height - 1)) =>
            root.pixels[x][y] = other.pixels[x - dx][y - dy]

\* C17: is_overlapping(root, other, dx, dy) returns true exactly when the two
\* footprints agree on their intersection, for every two fragments of the
\* catalog and every orthogonal offset, and the collection built for a root
\* and an offset lists exactly the catalog fragments that pass.  Fails on the
\* code for the catalogs of C1: the loops take the region from root's sides
\* alone.
C17_OverlapIsFootprintAgreement ==
    /\ pc # "Empty" =>
         \A root \in image_fragments, other \in image_fragments, o \in Orthogonal :
            /\ is_overlapping(root, other, o[1], o[2]) \in {"true", "false"}
            /\ is_overlapping(root, other, o[1], o[2]) = "true"
                 <=> FootprintsAgree(root, other, o[1], o[2])
    /\ CollectionsBuilt =>
         \A root \in image_fragments, o \in Orthogonal :
            ListsFor(root, o) =
                {{f \in image_fragments : FootprintsAgree(root, f, o[1], o[2])}}

\* the eight (four, two, one) variants of a window's base by name: the
\* rotations of the base, then the rotations of its flip
DihedralVariants(base) ==
    LET r1 == rotate(base)
        r2 == rotate(r1)
        r3 == rotate(r2)
        m0 == flip(base)
        m1 == rotate(m0)
        m2 == rotate(m1)
        m3 == rotate(m2)
    IN  IF is_reflection_permitted /\ is_rotation_permitted
        THEN <<base, r1, r2, r3, m0, m1, m2, m3>>
        ELSE IF is_rotation_permitted THEN <<base, r1, r2, r3>>
        ELSE IF is_reflection_permitted THEN <<base, m0>>
        ELSE <<base>>

\* how often a fragment occurs in a sequence
Occurrences(s, f) == Cardinality({i \in DOMAIN s : s[i] = f})

\* the windows of the sample, numbered
Windows ==
    0..(WindowRows(image, fragment_height) * WindowColumns(image, fragment_width) - 1)

\* C18: the variants inserted for each window are 1, 4, 2 or 8 by the flags,
\* and they are, each as often, the rotations of the base (with rotation) and
\* of its flip (with reflection): with both flags the dihedral group of the
\* base; the catalog's totals count exactly these.
C18_VariantsAreTheDihedralGroup ==
    pc = "Extracted" =>
        /\ \A k \in Windows :
             LET base == BaseAt(image, fragment_width, fragment_height, k)
                 inserted == oriented_image_fragments(base, is_reflection_permitted,
                                                      is_rotation_permitted)
             IN  /\ Len(inserted) = VariantsPerWindow
                 /\ Len(DihedralVariants(base)) = VariantsPerWindow
                 /\ \A f \in Range(inserted) \cup Range(DihedralVariants(base)) :
                       Occurrences(inserted, f) = Occurrences(DihedralVariants(base), f)
        /\ image_fragments =
             UNION {Range(DihedralVariants(BaseAt(image, fragment_width, fragment_height, k))) :
                      k \in Windows}
        /\ \A f \in image_fragments :
             image_fragment_duplicates_total_per_image_fragment[f] =
                SumOf([k \in Windows |->
                         Occurrences(DihedralVariants(
                            BaseAt(image, fragment_width, fragment_height, k)), f)])

\* C18 witness: both flags, a window whose base has four different
\* orientations, two of them flips of rotations
C18_Witness ==
    /\ pc = "Extracted"
    /\ is_reflection_permitted
    /\ is_rotation_permitted
    /\ \E k \in Windows :
          LET base == BaseAt(image, fragment_width, fragment_height, k)
          IN  /\ Cardinality(Range(DihedralVariants(base))) >= 4
              /\ flip(base) \notin {base, rotate(rotate(base))}
              /\ flip(base) \in image_fragments

\* C19 as stated: every node built has at least one candidate fragment, for
\* every sample and every flag combination.
C19_EveryNodeHasACandidate ==
    NodesBuilt => \A node \in Range(nodes) : DOMAIN Candidates(node) # {}

\* C19 as amended: every node of the last grid row has a candidate; without
\* contains_ground every node has; with contains_ground a node of another row
\* has one exactly when some catalog fragment is outside the ground set, and
\* none when every fragment of the sample also occurs in its last window row.
C19_CandidatesUnlessAllGround ==
    NodesBuilt =>
        \A node \in Range(nodes) :
            /\ node.id[2] = GridHeight - 1 => DOMAIN Candidates(node) # {}
            /\ ~contains_ground => DOMAIN Candidates(node) # {}
            /\ (contains_ground /\ node.id[2] # GridHeight - 1) =>
                  (DOMAIN Candidates(node) = {}
                     <=> image_fragments \subseteq ground_image_fragments)

\* C19 witness: ground mode on a sample whose fragments all occur in its last
\* window row, and a node above the last grid row, without a candidate
C19_Witness ==
    /\ pc = "ConstraintsBuilt"
    /\ contains_ground
    /\ image_fragments \subseteq ground_image_fragments
    /\ Cardinality(image_fragments) >= 2
    /\ \E node \in Range(nodes) :
          /\ node.id[2] # GridHeight - 1
          /\ DOMAIN Candidates(node) = {}

====
